---- MODULE Spec2Model ----
(***************************************************************************)
(* Model of the spiffe-helper sidecar (pkg/helper/spiffe-helper.go):       *)
(* the RunDaemon event loop, updateCertificates / dumpBundles and the      *)
(* credential writers, signalProcess and the checkProcessExit goroutine.   *)
(*                                                                         *)
(* Tasks: the daemon loop (pc), the goroutine that runs                    *)
(* WorkloadAPIClient.Start (srcPc), one checkProcessExit goroutine per     *)
(* successful cmd.Start (watcher), and the environment (the update source  *)
(* offering updates, the OS delivering SIGINT/SIGTERM, the caller          *)
(* cancelling the context, children exiting).                              *)
(***************************************************************************)
EXTENDS Integers, Sequences, FiniteSets, TLC

\* ------------------------------------------------------------------ bounds
\* Number of identity updates the source offers in one run.
MaxUpdates == 2

\* --------------------------------------------------------------- constants
certsFileMode == 420  \* os.FileMode(0644)
keyFileMode == 384    \* os.FileMode(0600)

VARIABLES
  pc,             \* position of the daemon loop (RunDaemon / updateCertificates)
  result,         \* value returned by RunDaemon ("none" until it returns)
  returns,        \* number of times RunDaemon has returned
  exitBy,         \* history: the select case that made RunDaemon return
  stopCalls,      \* number of calls of WorkloadAPIClient.Stop
  srcPc,          \* position of the goroutine of lines 49-55
  srcErr,         \* err of the goroutine of lines 49-55: what Start returned
  errorChan,      \* errorChan, buffered, capacity 1
  interrupt,      \* interrupt channel, buffered, capacity 1
  ctxDone,        \* ctx.Done() is closed
  updateChan,     \* the update the source is sending on the (unbuffered)
                  \* update channel, not yet received
  sent,           \* number of updates the source has offered
  received,       \* sequence numbers of the updates the loop received
  handled,        \* sequence numbers of the updates whose handling completed
  cur,            \* the rotation in progress (or the last one completed)
  files,          \* the three credential files on disk
  before,         \* files as they were when the current update was received
  renewSignal,    \* Config.RenewSignal
  ProcessRunning, \* Sidecar.ProcessRunning (int32, accessed atomically)
  Process,        \* Sidecar.Process (0 is nil, otherwise the child's id)
  spawned,        \* number of children started so far
  alive,          \* children started and not yet exited
  watcher,        \* checkProcessExit goroutines, indexed by the child whose
                  \* start launched them
  resetSinceStart, \* history: a watcher has stored 0 since the last cmd.Start
  staleExit,      \* history: a child has exited while the flag read 1, and
                  \* the flag has not been reset since
  signalName,     \* the argument s of the getSignal call under examination
  resolved        \* what that call returned (NoResult while it has not)

vars == <<pc, result, returns, exitBy, stopCalls, srcPc, srcErr, errorChan, interrupt,
          ctxDone, updateChan, sent, received, handled, cur, files, before,
          renewSignal, ProcessRunning, Process, spawned, alive, watcher,
          resetSinceStart, staleExit, signalName, resolved>>

resolverVars == <<signalName, resolved>>
sidecarVars == <<pc, result, returns, exitBy, stopCalls, srcPc, srcErr, errorChan,
                 interrupt, ctxDone, updateChan, sent, received, handled, cur, files,
                 before, renewSignal, ProcessRunning, Process, spawned, alive, watcher,
                 resetSinceStart, staleExit>>
daemonVars == <<pc, result, returns, exitBy, stopCalls>>
sourceVars == <<srcPc, srcErr, errorChan>>
chanVars == <<updateChan, sent, received, handled>>
procVars == <<ProcessRunning, Process, spawned, alive, watcher, resetSinceStart,
              staleExit>>

\* ------------------------------------------------------- identity updates
\* A byte blob is a sequence of DER items; "junk" is an item that does not
\* parse as a certificate.
Junk == "junk"

Svid(x509Svid, x509SvidKey, bundle) ==
  [X509Svid |-> x509Svid, X509SvidKey |-> x509SvidKey, Bundle |-> bundle]

\* The responses the source may deliver. Every response carries at least one
\* entry (the Workload API answers with an error, not with an empty response,
\* when no identity is issued). The first response carries a second entry,
\* whose bundle does not parse.
Responses ==
  << [Svids |-> << Svid(<<"leafA", "intA">>, "keyA", <<"caA">>),
                   Svid(<<"leafB">>, "keyB", <<Junk>>) >>],
     [Svids |-> << Svid(<<"leafC", Junk>>, "keyC", <<"caC">>) >>],
     [Svids |-> << Svid(<<"leafD">>, "keyD", <<Junk>>) >>] >>

Kinds == DOMAIN Responses

\* Values of Config.RenewSignal considered: test-app1.go sets "SIGUSR1",
\* TestSidecar_RunDaemon leaves it empty.
RenewSignals == {"SIGUSR1", ""}

\* ------------------------------------------------------ credential writer
FileNames == {"svid", "key", "bundle"}

NoFile == [exists |-> FALSE, data |-> <<>>, mode |-> 0]

\* x509.ParseCertificates: the blob is a concatenation of DER certificates;
\* any item that is not one makes the whole parse fail.
ParseCertificates(data) ==
  IF \E i \in DOMAIN data : data[i] = Junk
    THEN [err |-> "parse", certs |-> <<>>]
    ELSE [err |-> "nil", certs |-> data]

\* pem.EncodeToMemory(&pem.Block{Type: type, Bytes: bytes})
PemBlock(type, bytes) == [Type |-> type, Bytes |-> bytes]

\* The loop of writeCerts: one CERTIFICATE block per parsed certificate, in
\* the order parsed.
EncodeCerts(certs) == [i \in 1..Len(certs) |-> PemBlock("CERTIFICATE", certs[i])]

\* The block writeKey builds: the label is fixed.
EncodeKey(data) == << PemBlock("EC PRIVATE KEY", data) >>

\* ioutil.WriteFile(file, data, perm): open with O_WRONLY|O_CREATE|O_TRUNC
\* (perm applies only when the file is created), write, close. It succeeds,
\* or fails to open (file untouched), or fails after the truncation with only
\* a proper prefix of the data written.
WriteFile(old, data, perm) ==
  LET mode == IF old.exists THEN old.mode ELSE perm
  IN  { [err |-> "nil", file |-> [exists |-> TRUE, data |-> data, mode |-> mode]],
        [err |-> "open", file |-> old] }
      \cup
      { [err |-> "write",
         file |-> [exists |-> TRUE, data |-> SubSeq(data, 1, k), mode |-> mode]] :
        k \in 0..(Len(data) - 1) }

\* Mutant: the file is opened (and truncated) before the blob is parsed.
writeCertsTruncateFirst(old, data) ==
  LET parsed == ParseCertificates(data)
      mode == IF old.exists THEN old.mode ELSE certsFileMode
  IN  IF parsed.err # "nil"
        THEN { [err |-> parsed.err,
                file |-> [exists |-> TRUE, data |-> <<>>, mode |-> mode]] }
        ELSE WriteFile(old, EncodeCerts(parsed.certs), certsFileMode)

\* writeCerts(file, data): the outcomes it can have on a file that now is old.
writeCerts(old, data) ==
  LET parsed == ParseCertificates(data)
  IN  IF parsed.err # "nil"
        THEN { [err |-> parsed.err, file |-> old] }
        ELSE WriteFile(old, EncodeCerts(parsed.certs), certsFileMode)

\* writeKey(file, data)
writeKey(old, data) == WriteFile(old, EncodeKey(data), keyFileMode)

\* --------------------------------------------------- signal name resolver
SignalTable ==
  [SIGABRT |-> 6, SIGALRM |-> 14, SIGBUS |-> 7, SIGCHLD |-> 17, SIGCONT |-> 18,
   SIGFPE |-> 8, SIGHUP |-> 1, SIGILL |-> 4, SIGIO |-> 29, SIGIOT |-> 6,
   SIGKILL |-> 9, SIGPIPE |-> 13, SIGPROF |-> 27, SIGQUIT |-> 3, SIGSEGV |-> 11,
   SIGSTOP |-> 19, SIGSYS |-> 31, SIGTERM |-> 15, SIGTRAP |-> 5, SIGTSTP |-> 20,
   SIGTTIN |-> 21, SIGTTOU |-> 22, SIGURG |-> 23, SIGUSR1 |-> 10, SIGUSR2 |-> 12,
   SIGVTALRM |-> 26, SIGWINCH |-> 28, SIGXCPU |-> 24, SIGXFSZ |-> 25]

\* Mutant: the switch has no default case.
getSignalNoDefault(s) ==
  IF s \in DOMAIN SignalTable
    THEN [sig |-> SignalTable[s], err |-> "nil"]
    ELSE [sig |-> 0, err |-> "nil"]

getSignal(s) ==
  IF s \in DOMAIN SignalTable
    THEN [sig |-> SignalTable[s], err |-> "nil"]
    ELSE [sig |-> 0, err |-> "unrecognized signal"]

\* ------------------------------------------------------------------- Init
\* No call of getSignal has returned.
NoResult == [sig |-> 0, err |-> "none"]

NoRotation ==
  [seq |-> 0, kind |-> 0, attempted |-> {}, wrote |-> {}, err |-> "nil",
   sup |-> "none", spawns |-> 0, signals |-> 0]

NoWatcher == [pc |-> "none", target |-> 0]

Errors == {"e1", "e2"}

SidecarInit ==
  /\ pc = "idle"
  /\ result = "none"
  /\ returns = 0
  /\ exitBy = "none"
  /\ stopCalls = 0
  /\ srcPc = "notStarted"
  /\ srcErr = "nil"
  /\ errorChan = <<>>
  /\ interrupt = <<>>
  /\ ctxDone = FALSE
  /\ updateChan = <<>>
  /\ sent = 0
  /\ received = <<>>
  /\ handled = <<>>
  /\ cur = NoRotation
  /\ files = [f \in FileNames |-> NoFile]
  /\ before = [f \in FileNames |-> NoFile]
  /\ renewSignal \in RenewSignals
  /\ ProcessRunning = 0
  /\ Process = 0
  /\ spawned = 0
  /\ alive = {}
  /\ watcher = [w \in 1..MaxUpdates |-> NoWatcher]
  /\ resetSinceStart = FALSE
  /\ staleExit = FALSE

Init ==
  /\ SidecarInit
  /\ signalName = ""
  /\ resolved = NoResult

\* ------------------------------------------------------------ daemon loop
\* RunDaemon, lines 41-56: make the channels, register for SIGINT/SIGTERM,
\* take the update channel, start the goroutine that runs Start, defer Stop.
RunDaemon ==
  /\ pc = "idle"
  /\ pc' = "select"
  /\ srcPc' = "inStart"
  /\ UNCHANGED <<result, returns, exitBy, stopCalls, srcErr, errorChan, interrupt, ctxDone,
                 chanVars, cur, files, before, renewSignal, resolverVars, procVars>>

\* Mutant: Stop is not deferred.
NoDeferredStop == stopCalls' = stopCalls

\* defer s.WorkloadAPIClient.Stop(): runs when RunDaemon returns.
DeferredStop == stopCalls' = stopCalls + 1

\* A return statement of RunDaemon with value v, in select case c.
Return(v, c) ==
  /\ pc' = "done"
  /\ result' = v
  /\ returns' = returns + 1
  /\ exitBy' = c
  /\ DeferredStop

\* Mutant: the select is entered while an update is still being handled.
WaitingOrBusy == pc \notin {"idle", "done"}

\* The loop is blocked in the select of line 59.
Waiting == pc = "select"

\* case svidResponse := <-updateChan: the update received and what is left in
\* the channel.
Receive(ch) == [update |-> Head(ch), rest |-> Tail(ch)]

CaseUpdate ==
  /\ Waiting
  /\ updateChan # <<>>
  /\ LET r == Receive(updateChan)
     IN  /\ updateChan' = r.rest
         /\ received' = Append(received, r.update.seq)
         /\ cur' = [NoRotation EXCEPT !.seq = r.update.seq, !.kind = r.update.kind]
  /\ before' = files
  /\ pc' = "writeSvid"
  /\ UNCHANGED <<result, returns, exitBy, stopCalls, sourceVars, interrupt, ctxDone, sent,
                 handled, files, renewSignal, resolverVars, procVars>>

\* case <-interrupt: return nil
CaseInterrupt ==
  /\ Waiting
  /\ interrupt # <<>>
  /\ interrupt' = Tail(interrupt)
  /\ Return("nil", "interrupt")
  /\ UNCHANGED <<sourceVars, ctxDone, chanVars, cur, files, before, renewSignal, resolverVars,
                 procVars>>

\* Mutant: the error case returns nil.
ErrorResultNil(err) == "nil"

\* The value RunDaemon returns for the error err taken from errorChan.
ErrorResult(err) == err

\* case err := <-errorChan: return err
CaseError ==
  /\ Waiting
  /\ errorChan # <<>>
  /\ errorChan' = Tail(errorChan)
  /\ Return(ErrorResult(Head(errorChan)), "error")
  /\ UNCHANGED <<srcPc, srcErr, interrupt, ctxDone, chanVars, cur, files, before,
                 renewSignal, resolverVars, procVars>>

\* Mutant: the cancellation case does not return.
CaseCtxDoneIgnored ==
  /\ Waiting
  /\ ctxDone
  /\ UNCHANGED vars

\* Mutant: the cancellation interrupts the handling of an update.
CaseCtxDonePreempts ==
  /\ pc \notin {"idle", "done"}
  /\ ctxDone
  /\ Return("nil", "ctx")
  /\ UNCHANGED <<sourceVars, interrupt, ctxDone, chanVars, cur, files, before,
                 renewSignal, resolverVars, procVars>>

\* case <-ctx.Done(): return nil
CaseCtxDone ==
  /\ Waiting
  /\ ctxDone
  /\ Return("nil", "ctx")
  /\ UNCHANGED <<sourceVars, interrupt, ctxDone, chanVars, cur, files, before,
                 renewSignal, resolverVars, procVars>>

\* --------------------------------------- updateCertificates / dumpBundles
\* Mutant: the last entry of the response is taken.
LastSvid(response) == response.Svids[Len(response.Svids)]

\* svid := svidResponse.Svids[0]
FirstSvid(response) == response.Svids[1]

CurSvid == FirstSvid(Responses[cur.kind])

\* Mutant: a failed step ends the loop.
AfterStepAbort(err, next) == IF err = "nil" THEN next ELSE "done"

\* Mutant: the error of a step is ignored.
AfterStepIgnore(err, next) == next

\* Where the loop goes after a step of updateCertificates that returned err:
\* an error is logged and updateCertificates returns to the select; otherwise
\* the next step runs.
AfterStep(err, next) == IF err = "nil" THEN next ELSE "select"

\* updateCertificates has returned when the loop is back at the select.
Completed(nextPc) ==
  handled' = IF nextPc = "select" THEN Append(handled, cur.seq) ELSE handled

\* One write of dumpBundles on file name, with the outcome o of the writer.
WriteStep(name, o, next) ==
  /\ files' = [files EXCEPT ![name] = o.file]
  /\ cur' = [cur EXCEPT !.attempted = @ \cup {name},
                        !.wrote = IF o.err = "nil" THEN @ \cup {name} ELSE @,
                        !.err = IF o.err = "nil" THEN @ ELSE o.err]
  /\ pc' = AfterStep(o.err, next)
  /\ Completed(pc')
  /\ UNCHANGED <<result, returns, exitBy, stopCalls, sourceVars, interrupt, ctxDone,
                 updateChan, sent, received, before, renewSignal, resolverVars, procVars>>

\* err := s.writeCerts(svidFile, svid.X509Svid)
WriteSvid ==
  /\ pc = "writeSvid"
  /\ \E o \in writeCerts(files["svid"], CurSvid.X509Svid) :
       WriteStep("svid", o, "writeKey")

\* err = s.writeKey(svidKeyFile, svid.X509SvidKey)
WriteKey ==
  /\ pc = "writeKey"
  /\ \E o \in writeKey(files["key"], CurSvid.X509SvidKey) :
       WriteStep("key", o, "writeBundle")

\* err = s.writeCerts(svidBundleFile, svid.Bundle)
WriteBundle ==
  /\ pc = "writeBundle"
  /\ \E o \in writeCerts(files["bundle"], CurSvid.Bundle) :
       WriteStep("bundle", o, "signalProcess")

\* ---------------------------------------------------------- signalProcess
\* Mutant: the test of the flag is inverted.
BranchInverted(flag) == IF flag = 0 THEN "signal" ELSE "start"

\* if atomic.LoadInt32(&s.ProcessRunning) == 0 { start } else { signal }
Branch(flag) == IF flag = 0 THEN "start" ELSE "signal"

LoadFlag ==
  /\ pc = "signalProcess"
  /\ pc' = Branch(ProcessRunning)
  /\ UNCHANGED <<result, returns, exitBy, stopCalls, sourceVars, interrupt, ctxDone,
                 chanVars, cur, files, before, renewSignal, resolverVars, procVars>>

\* The state in which go s.checkProcessExit() leaves the new goroutine: about
\* to run its first statement.
Launched == [pc |-> "store1", target |-> 0]

\* Mutant: the handle is assigned before the error of cmd.Start is examined
\* (cmd.Process is nil when Start failed).
StartFailedAfterAssign ==
  /\ cur' = [cur EXCEPT !.err = "error executing process"]
  /\ Process' = 0
  /\ UNCHANGED <<spawned, alive, watcher, resetSinceStart>>

\* Lines 93-95: cmd.Start() failed; signalProcess returns the wrapped error.
StartFailed ==
  /\ cur' = [cur EXCEPT !.err = "error executing process"]
  /\ UNCHANGED <<spawned, alive, Process, watcher, resetSinceStart>>

\* Lines 89-97: build the command, cmd.Start(); on success record the handle
\* and launch checkProcessExit; on failure return the wrapped error.
StartProcess ==
  /\ pc = "start"
  /\ \E ok \in BOOLEAN :
       IF ok
         THEN LET child == spawned + 1
              IN  /\ spawned' = child
                  /\ alive' = alive \cup {child}
                  /\ Process' = child
                  /\ watcher' = [watcher EXCEPT ![child] = Launched]
                  /\ resetSinceStart' = FALSE
                  /\ cur' = [cur EXCEPT !.sup = "spawn", !.spawns = @ + 1]
         ELSE StartFailed
  /\ pc' = "select"
  /\ Completed(pc')
  /\ UNCHANGED <<result, returns, exitBy, stopCalls, sourceVars, interrupt, ctxDone,
                 updateChan, sent, received, files, before, renewSignal, resolverVars,
                 ProcessRunning, staleExit>>

\* A checkProcessExit goroutine's Wait on child p has returned.
Reaped(p) ==
  \E w \in DOMAIN watcher : watcher[w].pc \in {"store0", "done"} /\ watcher[w].target = p

\* Mutant: Signal succeeds on a process that has been waited for.
SignalAfterWait(p) == "nil"

\* s.Process.Signal(sig): fails once the process has been waited for
\* ("os: process already finished"), otherwise the signal is delivered.
Signal(p) == IF Reaped(p) THEN "error signaling process" ELSE "nil"

\* Lines 100-108: resolve the configured signal, deliver it to s.Process.
SignalProcess ==
  /\ pc = "signal"
  /\ LET r == getSignal(renewSignal)
         e == IF r.err # "nil" THEN "error getting signal" ELSE Signal(Process)
     IN  cur' = IF e = "nil"
                  THEN [cur EXCEPT !.sup = "signal", !.signals = @ + 1]
                  ELSE [cur EXCEPT !.err = e]
  /\ pc' = "select"
  /\ Completed(pc')
  /\ UNCHANGED <<result, returns, exitBy, stopCalls, sourceVars, interrupt, ctxDone,
                 updateChan, sent, received, files, before, renewSignal, resolverVars, procVars>>

\* ------------------------------------------------------- checkProcessExit
\* atomic.StoreInt32(&s.ProcessRunning, 1)
WatcherStore1(w) ==
  /\ watcher[w].pc = "store1"
  /\ ProcessRunning' = 1
  /\ watcher' = [watcher EXCEPT ![w].pc = "callWait"]
  /\ UNCHANGED <<daemonVars, sourceVars, interrupt, ctxDone, chanVars, cur, files,
                 before, renewSignal, resolverVars, Process, spawned, alive, resetSinceStart,
                 staleExit>>

\* s.Process.Wait() is called: the handle is the one s.Process holds now.
WatcherCallWait(w) ==
  /\ watcher[w].pc = "callWait"
  /\ watcher' = [watcher EXCEPT ![w] = [pc |-> "waiting", target |-> Process]]
  /\ UNCHANGED <<daemonVars, sourceVars, interrupt, ctxDone, chanVars, cur, files,
                 before, renewSignal, resolverVars, ProcessRunning, Process, spawned, alive,
                 resetSinceStart, staleExit>>

\* Wait returns once the process it waits for has exited.
WatcherWaitReturns(w) ==
  /\ watcher[w].pc = "waiting"
  /\ watcher[w].target \notin alive
  /\ watcher' = [watcher EXCEPT ![w].pc = "store0"]
  /\ UNCHANGED <<daemonVars, sourceVars, interrupt, ctxDone, chanVars, cur, files,
                 before, renewSignal, resolverVars, ProcessRunning, Process, spawned, alive,
                 resetSinceStart, staleExit>>

\* atomic.StoreInt32(&s.ProcessRunning, 0)
WatcherStore0(w) ==
  /\ watcher[w].pc = "store0"
  /\ ProcessRunning' = 0
  /\ watcher' = [watcher EXCEPT ![w].pc = "done"]
  /\ resetSinceStart' = TRUE
  /\ staleExit' = FALSE
  /\ UNCHANGED <<daemonVars, sourceVars, interrupt, ctxDone, chanVars, cur, files,
                 before, renewSignal, resolverVars, Process, spawned, alive>>

\* ---------------------------------- the goroutine that runs Start (49-55)
\* err := s.WorkloadAPIClient.Start() returned a non-nil error.
StartFails(e) ==
  /\ srcPc = "inStart"
  /\ srcErr' = e
  /\ srcPc' = "sending"
  /\ UNCHANGED <<daemonVars, errorChan, interrupt, ctxDone, chanVars, cur, files,
                 before, renewSignal, resolverVars, procVars>>

\* Start returned nil: the goroutine ends.
StartReturnsNil ==
  /\ srcPc = "inStart"
  /\ srcPc' = "exited"
  /\ UNCHANGED <<daemonVars, srcErr, errorChan, interrupt, ctxDone, chanVars, cur,
                 files, before, renewSignal, resolverVars, procVars>>

\* Mutant: errorChan is unbuffered, a send needs the loop to be receiving.
CanSendUnbuffered(ch) == Len(ch) < 1 /\ pc = "select"

\* A send on errorChan = make(chan error, 1) can complete: the slot is free.
CanSend(ch) == Len(ch) < 1

\* errorChan <- err
SendError ==
  /\ srcPc = "sending"
  /\ CanSend(errorChan)
  /\ errorChan' = Append(errorChan, srcErr)
  /\ srcPc' = "exited"
  /\ UNCHANGED <<daemonVars, srcErr, interrupt, ctxDone, chanVars, cur, files,
                 before, renewSignal, resolverVars, procVars>>

\* ------------------------------------------------------------ environment
\* The update source offers its next response on the update channel.
SendUpdate(k) ==
  /\ pc \notin {"idle", "done"}
  /\ sent < MaxUpdates
  /\ updateChan = <<>>
  /\ sent' = sent + 1
  /\ updateChan' = Append(updateChan, [seq |-> sent + 1, kind |-> k])
  /\ UNCHANGED <<daemonVars, sourceVars, interrupt, ctxDone, received, handled, cur,
                 files, before, renewSignal, resolverVars, procVars>>

\* SIGINT or SIGTERM arrives after signal.Notify: it is queued on the
\* interrupt channel (capacity 1; dropped when the channel is full). The
\* loop discards the value it receives, so the channel holds a token.
OSInterrupt(sig) ==
  /\ pc \notin {"idle", "done"}
  /\ sig \in {"SIGINT", "SIGTERM"}
  /\ Len(interrupt) < 1
  /\ interrupt' = Append(interrupt, "os.Signal")
  /\ UNCHANGED <<daemonVars, sourceVars, ctxDone, chanVars, cur, files, before,
                 renewSignal, resolverVars, procVars>>

\* The caller cancels ctx.
Cancel ==
  /\ pc # "done"
  /\ ~ctxDone
  /\ ctxDone' = TRUE
  /\ UNCHANGED <<daemonVars, sourceVars, interrupt, chanVars, cur, files, before,
                 renewSignal, resolverVars, procVars>>

\* A child process exits.
ChildExit(p) ==
  /\ p \in alive
  /\ alive' = alive \ {p}
  /\ staleExit' = (staleExit \/ ProcessRunning = 1)
  /\ UNCHANGED <<daemonVars, sourceVars, interrupt, ctxDone, chanVars, cur, files,
                 before, renewSignal, resolverVars, ProcessRunning, Process, spawned, watcher,
                 resetSinceStart>>

\* ------------------------------------------------------------------- Next
\* signal.Notify(interrupt, syscall.SIGINT, syscall.SIGTERM)
NotifySignals == {"SIGINT", "SIGTERM"}

\* One child, and one watcher, per successful cmd.Start; at most one start per
\* update.
Watchers == 1..MaxUpdates

Select == CaseUpdate \/ CaseInterrupt \/ CaseError \/ CaseCtxDone

UpdateCertificates == WriteSvid \/ WriteKey \/ WriteBundle \/ LoadFlag
                        \/ StartProcess \/ SignalProcess

WatcherStep == \E w \in Watchers :
  WatcherStore1(w) \/ WatcherCallWait(w) \/ WatcherWaitReturns(w) \/ WatcherStore0(w)

SourceStep == (\E e \in Errors : StartFails(e)) \/ StartReturnsNil \/ SendError

Environment ==
  \/ \E k \in Kinds : SendUpdate(k)
  \/ \E sig \in NotifySignals : OSInterrupt(sig)
  \/ Cancel
  \/ \E p \in Watchers : ChildExit(p)

Next == RunDaemon \/ Select \/ UpdateCertificates \/ WatcherStep \/ SourceStep
          \/ Environment

Spec == Init /\ [][Next]_vars

\* Scheduling: the Go scheduler runs every runnable goroutine, so each step
\* of the loop, of the Start goroutine and of a watcher that can be taken is
\* taken eventually; select chooses uniformly at random among its ready
\* cases, so a case that is ready again and again is eventually chosen.
\* Nothing obliges the environment (updates, signals, cancellation, Start
\* returning, children exiting).
FairSpec ==
  /\ Spec
  /\ WF_vars(RunDaemon)
  /\ WF_vars(UpdateCertificates)
  /\ SF_vars(CaseInterrupt)
  /\ SF_vars(CaseError)
  /\ SF_vars(CaseCtxDone)
  /\ WF_vars(SendError)
  /\ \A w \in Watchers :
       WF_vars(WatcherStore1(w) \/ WatcherCallWait(w) \/ WatcherWaitReturns(w)
                 \/ WatcherStore0(w))

\* ------------------------------------------------- getSignal on its own
\* The strings getSignal is called with: the names of its switch, the same
\* names in lower case, and other strings (mixed case, the empty string, a
\* name without its prefix, a padded name, a number, signals that exist but
\* are not in the switch).
SignalNames ==
  { "SIGABRT", "SIGALRM", "SIGBUS", "SIGCHLD", "SIGCONT", "SIGFPE", "SIGHUP",
    "SIGILL", "SIGIO", "SIGIOT", "SIGKILL", "SIGPIPE", "SIGPROF", "SIGQUIT",
    "SIGSEGV", "SIGSTOP", "SIGSYS", "SIGTERM", "SIGTRAP", "SIGTSTP", "SIGTTIN",
    "SIGTTOU", "SIGURG", "SIGUSR1", "SIGUSR2", "SIGVTALRM", "SIGWINCH", "SIGXCPU",
    "SIGXFSZ",
    "sigabrt", "sigalrm", "sigbus", "sigchld", "sigcont", "sigfpe", "sighup",
    "sigill", "sigio", "sigiot", "sigkill", "sigpipe", "sigprof", "sigquit",
    "sigsegv", "sigstop", "sigsys", "sigterm", "sigtrap", "sigtstp", "sigttin",
    "sigttou", "sigurg", "sigusr1", "sigusr2", "sigvtalrm", "sigwinch", "sigxcpu",
    "sigxfsz",
    "", "SigTerm", "Sigusr1", "TERM", "USR1", "SIGTERM ", " SIGHUP", "15",
    "SIGMADEUP", "SIGINT", "SIGPOLL", "SIGPWR", "SIGSTKFLT", "SIGRTMIN" }

\* The sidecar is as constructed; getSignal is about to be called with some
\* string.
ResolveInit ==
  /\ SidecarInit
  /\ signalName \in SignalNames
  /\ resolved = NoResult

\* The call getSignal(signalName) returns. The function is a switch on its
\* argument: it reads and writes nothing else.
GetSignalReturns ==
  /\ resolved = NoResult
  /\ resolved' = getSignal(signalName)
  /\ UNCHANGED <<signalName, sidecarVars>>

\* The next call, with argument s.
GetSignalCalled(s) ==
  /\ resolved # NoResult
  /\ signalName' = s
  /\ resolved' = NoResult
  /\ UNCHANGED sidecarVars

ResolveNext == GetSignalReturns \/ \E s \in SignalNames : GetSignalCalled(s)

ResolveSpec == ResolveInit /\ [][ResolveNext]_vars

\* ----------------------------------------------------------------- claims
Handling == pc \in {"writeSvid", "writeKey", "writeBundle", "signalProcess",
                    "start", "signal"}

Supervising == pc \in {"signalProcess", "start", "signal"}

CredentialErrors == {"parse", "open", "write"}

SupervisionErrors ==
  {"error executing process", "error getting signal", "error signaling process"}

\* What a successful dumpBundles leaves in each file for the current update.
Expected(f) ==
  CASE f = "svid" -> EncodeCerts(CurSvid.X509Svid)
    [] f = "key" -> EncodeKey(CurSvid.X509SvidKey)
    [] f = "bundle" -> EncodeCerts(CurSvid.Bundle)

\* C1: on every exit path of RunDaemon (interrupt, cancellation, source
\* error) Stop has been called exactly once when RunDaemon has returned, and
\* it has not been called as long as RunDaemon has not returned.
C1_StopExactlyOnce ==
  /\ pc = "done" => stopCalls = 1 /\ exitBy \in {"interrupt", "error", "ctx"}
  /\ pc # "done" => stopCalls = 0

C1_Witness ==
  /\ pc = "done"
  /\ exitBy = "error"
  /\ stopCalls = 1
  /\ handled # <<>>

\* C2: the supervisor step of a rotation starts a child when none was ever
\* started, and takes the signal path - starts no new process - whenever the
\* child recorded in Process is still alive.
C2_SpawnOnceThenSignal ==
  [][ (pc = "signalProcess" /\ pc' # "signalProcess")
        => IF spawned = 0
             THEN pc' = "start"
             ELSE (Process \in alive => pc' = "signal") ]_vars

\* C3: at most one child started by the supervisor is alive at any time.
C3_AtMostOneChild == Cardinality(alive) <= 1

\* C4: once the context is cancelled, an interrupt is queued or Start has
\* returned an error, RunDaemon eventually returns; and it never returns
\* more than once.
Triggered ==
  ctxDone \/ interrupt # <<>> \/ srcPc = "sending" \/ errorChan # <<>>

C4_TriggerTerminatesOnce ==
  /\ Triggered ~> (pc = "done")
  /\ [](returns <= 1)
  /\ [](pc = "done" => returns = 1)

C4_Witness ==
  /\ pc = "done"
  /\ returns = 1
  /\ exitBy = "ctx"
  /\ updateChan # <<>>
  /\ handled # <<>>

\* C5: RunDaemon returns nil when it exits on an interrupt or a cancellation;
\* it returns a non-nil error only when it exits on the source's error, and
\* then the value returned is the error Start returned.
C5_ReturnValue ==
  pc = "done" =>
    /\ exitBy \in {"interrupt", "ctx"} => result = "nil"
    /\ exitBy = "error" => result = srcErr /\ result \in Errors
    /\ result # "nil" => exitBy = "error"

C5_Witness ==
  /\ pc = "done"
  /\ exitBy = "error"
  /\ result = "e2"
  /\ ctxDone

\* C6: the step of updateCertificates in which the credential write or the
\* supervisor step fails leaves the loop waiting in its select, RunDaemon
\* not returned and the source not stopped.
C6_FailureKeepsLoop ==
  [][ (cur.err = "nil" /\ cur'.err # "nil")
        => /\ cur'.err \in CredentialErrors \cup SupervisionErrors
           /\ pc' = "select"
           /\ result' = "none" /\ returns' = 0 /\ stopCalls' = 0
           /\ handled' = Append(handled, cur.seq) ]_vars

C6_Witness ==
  /\ pc = "writeSvid"
  /\ cur.seq = 2
  /\ before["svid"].exists = FALSE
  /\ returns = 0

\* C7: the supervisor step runs for an update only when the three writes of
\* that update succeeded and the three files hold that update's material; the
\* key is written only after the certificate was, the bundle only after both.
C7_SignalOnlyAfterFullWrite ==
  /\ (Supervising \/ cur.sup # "none" \/ cur.err \in SupervisionErrors)
       => /\ cur.wrote = FileNames
          /\ \A f \in FileNames : files[f].exists /\ files[f].data = Expected(f)
  /\ "key" \in cur.attempted => "svid" \in cur.wrote
  /\ "bundle" \in cur.attempted => {"svid", "key"} \subseteq cur.wrote
  /\ cur.spawns + cur.signals > 0 => cur.wrote = FileNames

C7_Witness ==
  /\ cur.sup = "signal"
  /\ cur.wrote = FileNames
  /\ cur.seq = 2

\* C8 as claimed: when the credential write of an update has failed, the
\* three files are as they were before that update.
C8_FailureLeavesDiskUnchanged ==
  cur.err \in CredentialErrors => files = before

\* C8 as amended: when the credential write of an update has failed, the
\* files of the steps after the failing one are as they were before that
\* update, and so is the failing file unless its write failed after the
\* truncation; the files written by the earlier steps of that update hold the
\* new material.
C8_FailureLeavesLaterFiles ==
  cur.err \in CredentialErrors =>
    /\ \A f \in FileNames \ cur.attempted : files[f] = before[f]
    /\ \A f \in cur.attempted \ cur.wrote :
         \/ files[f] = before[f]
         \/ /\ cur.err = "write"
            /\ files[f].exists
            /\ Len(files[f].data) < Len(Expected(f))
    /\ \A f \in cur.wrote : files[f].exists /\ files[f].data = Expected(f)

C8_Witness ==
  /\ cur.err = "parse"
  /\ cur.wrote = {"svid", "key"}
  /\ files["svid"] # before["svid"]
  /\ files["bundle"] = before["bundle"]
  /\ before["svid"].exists

\* C9: after a started child has exited while the flag read 1, the flag
\* eventually reads 0 again; and a rotation whose supervisor step comes after
\* a watcher has reset the flag, with no start since, starts a new child.
C9_ExitResetsThenRespawn ==
  /\ staleExit ~> (ProcessRunning = 0)
  /\ [][ (pc = "signalProcess" /\ pc' # "signalProcess" /\ resetSinceStart)
           => pc' = "start" ]_vars

\* C10: updates are handled one at a time, in the order received, each
\* exactly once: the updates handled are the updates received, in order,
\* except the one being handled; nothing offered is lost.
C10_OneAtATimeInOrder ==
  /\ received = [i \in 1..Len(received) |-> i]
  /\ sent = Len(received) + Len(updateChan)
  /\ Len(handled) <= Len(received)
  /\ handled = SubSeq(received, 1, Len(handled))
  /\ Len(received) - Len(handled) = (IF Handling THEN 1 ELSE 0)
  /\ Handling => cur.seq = received[Len(received)]
  /\ pc = "done" => handled = received

C10_Witness ==
  /\ handled = <<1, 2>>
  /\ received = <<1, 2>>
  /\ pc = "select"

\* The content a complete write of file f produces from entry i of the
\* response of kind k.
EntryContent(k, i, f) ==
  LET svid == Responses[k].Svids[i]
  IN  CASE f = "svid" -> EncodeCerts(svid.X509Svid)
        [] f = "key" -> EncodeKey(svid.X509SvidKey)
        [] f = "bundle" -> EncodeCerts(svid.Bundle)

\* The blob of entry i of the response of kind k that goes to file f parses.
EntryParses(k, i, f) ==
  LET svid == Responses[k].Svids[i]
  IN  CASE f = "svid" -> ParseCertificates(svid.X509Svid).err = "nil"
        [] f = "key" -> TRUE
        [] f = "bundle" -> ParseCertificates(svid.Bundle).err = "nil"

IsPrefix(s, t) == Len(s) <= Len(t) /\ s = SubSeq(t, 1, Len(s))

\* C11: a file written for the current update holds the content derived from
\* the first entry of that update; every file on disk holds (a prefix of) the
\* content derived from the first entry of some update; and a parse error of
\* the current update comes from a blob of its first entry - the entries
\* after the first are neither written nor the cause of an error.
C11_OnlyFirstEntry ==
  /\ \A f \in cur.wrote : files[f].exists /\ files[f].data = EntryContent(cur.kind, 1, f)
  /\ \A f \in FileNames :
       files[f].exists => \E k \in Kinds : IsPrefix(files[f].data, EntryContent(k, 1, f))
  /\ cur.err = "parse" =>
       \E f \in cur.attempted \ cur.wrote : ~EntryParses(cur.kind, 1, f)
  /\ (cur.kind # 0 /\ \A f \in FileNames : EntryParses(cur.kind, 1, f))
       => cur.err # "parse"

C11_Witness ==
  /\ cur.seq = 2
  /\ Len(Responses[cur.kind].Svids) > 1
  /\ ~EntryParses(cur.kind, 2, "bundle")
  /\ cur.wrote = FileNames
  /\ cur.sup # "none"
  /\ \A f \in FileNames : files[f].data = EntryContent(cur.kind, 1, f)
                            /\ files[f].data # EntryContent(cur.kind, 2, f)

\* The case labels of getSignal, lines 183-240.
CaseLabels ==
  { "SIGABRT", "SIGALRM", "SIGBUS", "SIGCHLD", "SIGCONT", "SIGFPE", "SIGHUP",
    "SIGILL", "SIGIO", "SIGIOT", "SIGKILL", "SIGPIPE", "SIGPROF", "SIGQUIT",
    "SIGSEGV", "SIGSTOP", "SIGSYS", "SIGTERM", "SIGTRAP", "SIGTSTP", "SIGTTIN",
    "SIGTTOU", "SIGURG", "SIGUSR1", "SIGUSR2", "SIGVTALRM", "SIGWINCH", "SIGXCPU",
    "SIGXFSZ" }

\* The signal numbers of the platform (Linux: 1..31 are the standard signals).
ValidSignals == 1..31

\* C12: getSignal returns a valid signal and no error for every name of its
\* table, and the error "unrecognized signal" (and no signal) for every other
\* string - the empty string and the names in another case included; a call
\* changes nothing of the sidecar.
C12_ResolveTable ==
  /\ [](resolved # NoResult =>
          IF signalName \in CaseLabels
            THEN resolved.err = "nil" /\ resolved.sig \in ValidSignals
            ELSE resolved.err = "unrecognized signal" /\ resolved.sig = 0)
  /\ [][sidecarVars' = sidecarVars]_vars

C12_Witness ==
  /\ signalName = "sigterm"
  /\ resolved.err = "unrecognized signal"
  /\ getSignal("SIGTERM") = [sig |-> 15, err |-> "nil"]
  /\ getSignal("").err = "unrecognized signal"

\* C13 as claimed: once a well-formed update has been received while the
\* context was not cancelled, RunDaemon, when it returns, returns nil and the
\* three credential files exist.
C13_UpdateBeforeCancelWritten ==
  []( (~ctxDone /\ cur.kind = 1 /\ Handling)
        => [](pc = "done" => result = "nil" /\ \A f \in FileNames : files[f].exists) )

\* C13 as amended: when RunDaemon has returned, no update is left half
\* handled - every update received, before the cancellation or after it, was
\* taken through updateCertificates to its end; the value returned is nil
\* unless the exit is the source's error; and the files of the last update
\* are all written with its content unless one of its writes failed.
C13_ReturnAfterWholeUpdate ==
  pc = "done" =>
    /\ ~Handling
    /\ handled = received
    /\ exitBy \in {"ctx", "interrupt"} => result = "nil"
    /\ exitBy = "error" => result \in Errors
    /\ (cur.seq # 0 /\ cur.err \notin CredentialErrors)
         => /\ cur.wrote = FileNames
            /\ \A f \in FileNames :
                 files[f].exists /\ files[f].data = EntryContent(cur.kind, 1, f)
    /\ (cur.seq # 0 /\ cur.err \in CredentialErrors) => cur.wrote # FileNames

C13_Witness ==
  /\ pc = "done"
  /\ exitBy = "ctx"
  /\ result = "nil"
  /\ received = <<1>>
  /\ cur.kind = 1
  /\ cur.wrote = FileNames
  /\ updateChan # <<>>

\* C14: the step in which signalProcess returns nil from its start branch
\* leaves the handle recorded, naming the child just started, and the flag
\* reading 1.
C14_SpawnReturnsWithFlagSet ==
  [][ (pc = "start" /\ cur'.sup = "spawn")
        => /\ Process' # 0
           /\ Process' \in alive'
           /\ ProcessRunning' = 1 ]_vars

\* C15: the flag changes from 0 to 1 only through a successful start (in the
\* start step itself or in the first statement of the watcher it launched),
\* and from 1 to 0 only when a watcher has seen the exit of the child that
\* Process records; the step that delivers the reload signal changes neither
\* the flag nor Process.
C15_FlagTransitions ==
  [][ /\ (ProcessRunning = 0 /\ ProcessRunning' = 1)
           => \/ pc = "start" /\ cur'.sup = "spawn"
              \/ \E w \in Watchers :
                   watcher[w].pc = "store1" /\ watcher'[w].pc = "callWait"
      /\ (ProcessRunning = 1 /\ ProcessRunning' = 0)
           => \E w \in Watchers :
                /\ watcher[w].pc = "store0" /\ watcher'[w].pc = "done"
                /\ watcher[w].target = Process
                /\ Process \notin alive
      /\ (pc = "signal" /\ pc' # "signal")
           => ProcessRunning' = ProcessRunning /\ Process' = Process ]_vars

C17_SignalPathHasHandle ==
  /\ (pc = "signal" \/ cur.sup = "signal" \/ cur.signals > 0
        \/ cur.err \in {"error getting signal", "error signaling process"})
       => Process # 0 /\ Process \in 1..spawned
  /\ ProcessRunning = 1 => Process # 0
  /\ \A w \in Watchers : watcher[w].pc # "none" => Process # 0 /\ w <= spawned
  /\ Process = 0 => ProcessRunning = 0 /\ spawned = 0

C17_Witness ==
  /\ pc = "signal"
  /\ ProcessRunning = 1
  /\ Process = 1
  /\ Process \in alive
  /\ renewSignal = "SIGUSR1"

\* C18: the goroutine that runs Start is never blocked in its send: while it
\* is about to send, the slot of errorChan is free, whatever the loop is
\* doing and also after RunDaemon has returned; it sends one error at most,
\* the one Start returned, and has ended once it has sent.
C18_ErrorSendNeverBlocks ==
  /\ [](srcPc = "sending" => errorChan = <<>> /\ CanSend(errorChan) /\ srcErr \in Errors)
  /\ [](Len(errorChan) <= 1)
  /\ [](errorChan # <<>> => srcPc = "exited" /\ errorChan = <<srcErr>>)
  /\ [](srcPc = "exited" => ~ENABLED SendError)
  /\ [][ (srcPc = "sending" /\ srcPc' # "sending")
           => srcPc' = "exited" /\ errorChan' = <<srcErr>> ]_vars
  /\ [][ srcPc = "exited" => srcPc' = "exited" /\ Len(errorChan') <= Len(errorChan) ]_vars

C18_Witness ==
  /\ pc = "done"
  /\ exitBy = "ctx"
  /\ srcPc = "exited"
  /\ errorChan = <<"e1">>
  /\ handled # <<>>

\* C19 as claimed: the loop calls Signal on the handle in Process only while
\* no watcher's Wait on that child has returned.
C19_NoSignalAfterWait ==
  [][ (pc = "signal" /\ pc' # "signal" /\ getSignal(renewSignal).err = "nil")
        => ~Reaped(Process) ]_vars

\* C19 as amended: a reload signal is delivered - the supervisor step ends
\* with a signal sent - only to a child on which no watcher's Wait has
\* returned; when the loop calls Signal on a handle whose Wait has returned
\* (the flag was loaded as 1 before the exit was seen), nothing is delivered
\* and the step ends with the error of the delivery.
C19_DeliveredOnlyBeforeWait ==
  [][ (pc = "signal" /\ pc' # "signal")
        => /\ (cur'.sup = "signal" \/ cur'.signals > cur.signals)
                => /\ ~Reaped(Process)
                   /\ getSignal(renewSignal).err = "nil"
                   /\ cur'.err = "nil"
           /\ (getSignal(renewSignal).err = "nil" /\ Reaped(Process))
                => /\ cur'.err = "error signaling process"
                   /\ cur'.sup = "none"
                   /\ cur'.signals = cur.signals
           /\ Process' = Process /\ alive' = alive ]_vars

C19_Witness ==
  /\ cur.err = "error signaling process"
  /\ Process = 1
  /\ Reaped(Process)
  /\ watcher[1].pc = "done"
  /\ ProcessRunning = 0
  /\ pc = "select"

\* C20: a watcher that has called Wait waits on the child whose start
\* launched it, no child is waited on by two watchers, and the watcher that
\* stores 0 has waited on the child that Process records.
C20_WatcherWaitsOnOwnChild ==
  /\ [](\A w \in Watchers :
          watcher[w].pc \in {"waiting", "store0", "done"} => watcher[w].target = w)
  /\ [](\A v, w \in Watchers :
          (v # w /\ watcher[v].target # 0) => watcher[v].target # watcher[w].target)
  /\ [][ \A w \in Watchers :
           (watcher[w].pc = "store0" /\ watcher'[w].pc = "done")
             => watcher[w].target = Process ]_vars

====
